---- MODULE Spec2Model ----
(***************************************************************************)
(* The trading arena of ardahk/cal12.0: the Trader of agents/trader.py     *)
(* (validate, then apply a trade decision to its portfolio), the BaseAgent *)
(* of agents/base_agent.py, the bull/bear DebateTeam, the analysts, the    *)
(* TradingSimulation of run_simulation.py (run_full_simulation, run_day),  *)
(* and the dashboard's API client and status polling (frontend).           *)
(*                                                                         *)
(* Money and prices are integers (whole dollars) and the arithmetic is     *)
(* exact.  For integer cash up to 20000 and the integer prices used here   *)
(* double-precision expression int((cash * 0.3) / price) of the source     *)
(* equals (3*cash) \div (10*price), which is what MaxQuantity computes.    *)
(* On fractional prices the source's doubles can round the quotient across *)
(* an integer when 0.3*cash/price is a whole number; that rounding is not  *)
(* modelled.                                                               *)
(***************************************************************************)
EXTENDS Integers, Sequences, FiniteSets, TLC

VARIABLES
    portfolio,  \* Trader.portfolio: [cash, positions]
    calls,      \* number of Trader.make_decision calls made so far
    last,       \* the last make_decision call: inputs, portfolio before, outcome
    agent,      \* BaseAgent: [cash, positions]
    agentCalls, \* number of agent turns of TradingSimulator.run_simulation so far
    agentLast,  \* the last agent turn: decision, price, portfolio before, outcome
    debate,     \* one DebateTeam.debate call in progress
    sim,        \* TradingSimulation: traders, results, position in the run
    web,        \* the dashboard page: polling state, backend run, status shown
    api         \* the last call of an API client function of lib/api.ts

vars == <<portfolio, calls, last, agent, agentCalls, agentLast, debate,
          sim, web, api>>

---------------------------------------------------------------------------
(* Bounds and input sets *)

MaxCalls == 2

MaxAgentCalls == 3

MaxRounds == 3

InitialCash == 10000

Tickers == {"AAPL", "MSFT"}

Prices == {175, 180, 4000}

Quantities == {-1, 0, 5, 20, 50}

---------------------------------------------------------------------------
(* Python dicts: a function whose DOMAIN is the set of keys present *)

EmptyDict == [k \in {} |-> 0]

Get(d, k, default) == IF k \in DOMAIN d THEN d[k] ELSE default

Put(d, k, v) == [x \in (DOMAIN d) \cup {k} |-> IF x = k THEN v ELSE d[x]]

Del(d, k) == [x \in (DOMAIN d) \ {k} |-> d[x]]

\* str.upper() on the action labels an oracle may return
Upper(s) ==
    CASE s = "buy" -> "BUY"
      [] s = "sell" -> "SELL"
      [] s = "hold" -> "HOLD"
      [] OTHER -> s

---------------------------------------------------------------------------
(* The decision oracle's reply to a Trader prompt *)

OracleActions == {"BUY", "SELL", "HOLD", "buy"}

\* a JSON object with every key the prompt asks for
WellFormedDecisions ==
    [action: OracleActions, ticker: Tickers, quantity: Quantities,
     reasoning: {<<"r">>}]

\* what call_claude / call_gpt / call_gemini return when the API call fails
ErrorDict == [error |-> "e"]

\* JSON objects that lack a key
PartialDecisions ==
    {ErrorDict}
    \cup [action: {"BUY", "SELL"}, quantity: {5, 50}, reasoning: {<<"r">>}]
    \cup [action: {"BUY", "SELL"}, ticker: Tickers, quantity: {5, 50}]

\* the text the oracle call returns: JSON that parses, or text with no JSON in it
Responses ==
    [parsed: {TRUE}, json: WellFormedDecisions \cup PartialDecisions]
    \cup {[parsed |-> FALSE, json |-> EmptyDict]}

---------------------------------------------------------------------------
(* agents/trader.py *)

\* LLMClient.extract_json: the parsed object, or ValueError
extract_json(response) ==
    IF response.parsed
    THEN [raised |-> FALSE, value |-> response.json]
    ELSE [raised |-> TRUE, value |-> EmptyDict]

\* a plausible slip: the 30% cap is left out
MaxQuantityAllCash(cash, price) == cash \div price

\* int((cash * 0.3) / price)
MaxQuantity(cash, price) == (cash * 3) \div (price * 10)

\* the "(Adjusted quantity ...)" note appended to decision['reasoning']
Annotate(decision, note) ==
    Put(decision, "reasoning", Append(decision["reasoning"], note))

\* a plausible slip: the quantity is passed on unclamped
NoClamp(quantity, limit) == quantity

\* if quantity > limit: quantity = limit
Clamp(quantity, limit) == IF quantity > limit THEN limit ELSE quantity

\* Trader._validate_decision: the amended decision, or KeyError
_validate_decision(pf, decision, ticker, price) ==
    LET action == Upper(Get(decision, "action", "HOLD"))
        quantity == Get(decision, "quantity", 0)
        max_quantity == MaxQuantity(pf.cash, price)
        current_position == Get(pf.positions, ticker, 0)
        limit == IF action = "BUY" THEN max_quantity ELSE current_position
        adjusts == action \in {"BUY", "SELL"} /\ quantity > limit
        note == IF action = "BUY" THEN "adjusted:cash" ELSE "adjusted:position"
    IN  IF adjusts /\ "reasoning" \notin DOMAIN decision
        THEN [raised |-> TRUE, decision |-> EmptyDict]
        ELSE LET q == IF action \in {"BUY", "SELL"}
                      THEN Clamp(quantity, limit) ELSE quantity
                 d1 == IF adjusts THEN Annotate(decision, note) ELSE decision
             IN  [raised |-> FALSE,
                  decision |-> Put(Put(d1, "action", action), "quantity", q)]

\* a plausible slip: the quantity is not tested at all
BuyGuardNoQuantity(action, quantity) == action = "BUY"

\* a plausible slip: >= for >
BuyGuardZero(action, quantity) == action = "BUY" /\ quantity >= 0

\* if action == 'BUY' and quantity > 0
BuyGuard(action, quantity) == action = "BUY" /\ quantity > 0

\* elif action == 'SELL' and quantity > 0
SellGuard(action, quantity) == action = "SELL" /\ quantity > 0

\* a plausible slip: the position is overwritten, not added to
ApplyBuyOverwrite(pf, ticker, quantity, price) ==
    IF quantity * price <= pf.cash
    THEN [cash |-> pf.cash - quantity * price,
          positions |-> Put(pf.positions, ticker, quantity)]
    ELSE pf

\* the BUY branch of _execute_trade
ApplyBuy(pf, ticker, quantity, price) ==
    LET cost == quantity * price
    IN  IF cost <= pf.cash
        THEN [cash |-> pf.cash - cost,
              positions |->
                 Put(pf.positions, ticker, Get(pf.positions, ticker, 0) + quantity)]
        ELSE pf

\* a plausible slip: the emptied position keeps its key
ApplySellKeepKey(pf, ticker, quantity, price) ==
    IF Get(pf.positions, ticker, 0) >= quantity
    THEN [cash |-> pf.cash + quantity * price,
          positions |-> Put(pf.positions, ticker, pf.positions[ticker] - quantity)]
    ELSE pf

\* the SELL branch of _execute_trade (quantity > 0, so a held ticker is a key)
ApplySell(pf, ticker, quantity, price) ==
    IF Get(pf.positions, ticker, 0) >= quantity
    THEN LET proceeds == quantity * price
             left == pf.positions[ticker] - quantity
         IN  [cash |-> pf.cash + proceeds,
              positions |->
                 IF left = 0
                 THEN Del(pf.positions, ticker)
                 ELSE Put(pf.positions, ticker, left)]
    ELSE pf

\* Trader._execute_trade: the portfolio after the trade, or KeyError
_execute_trade(pf, decision, price) ==
    IF "ticker" \notin DOMAIN decision
    THEN [raised |-> TRUE, portfolio |-> pf]
    ELSE
    LET action == decision["action"]
        ticker == decision["ticker"]
        quantity == decision["quantity"]
    IN  [raised |-> FALSE,
         portfolio |->
            IF BuyGuard(action, quantity)
            THEN ApplyBuy(pf, ticker, quantity, price)
            ELSE IF SellGuard(action, quantity)
            THEN ApplySell(pf, ticker, quantity, price)
            ELSE pf]

\* Trader.make_decision from the oracle's reply on: parse, validate, execute
make_decision(pf, ticker, price, response) ==
    LET parsed == extract_json(response)
    IN  IF parsed.raised
        THEN [raised |-> TRUE, decision |-> EmptyDict, portfolio |-> pf]
        ELSE
        LET validated == _validate_decision(pf, parsed.value, ticker, price)
        IN  IF validated.raised
            THEN [raised |-> TRUE, decision |-> EmptyDict, portfolio |-> pf]
            ELSE
            LET executed == _execute_trade(pf, validated.decision, price)
            IN  IF executed.raised
                THEN [raised |-> TRUE, decision |-> EmptyDict,
                      portfolio |-> executed.portfolio]
                ELSE [raised |-> FALSE, decision |-> validated.decision,
                      portfolio |-> executed.portfolio]

\* Trader.__init__
TraderInit ==
    /\ portfolio = [cash |-> InitialCash, positions |-> EmptyDict]
    /\ calls = 0
    /\ last = [outcome |-> "none"]

\* one call trader.make_decision(reports, debate, ticker, date, current_price)
MakeDecision ==
    /\ calls < MaxCalls
    /\ \E ticker \in Tickers, price \in Prices, response \in Responses :
          LET r == make_decision(portfolio, ticker, price, response)
          IN  /\ portfolio' = r.portfolio
              /\ last' = [outcome |-> IF r.raised THEN "raised" ELSE "returned",
                          ticker |-> ticker,
                          price |-> price,
                          response |-> response,
                          before |-> portfolio,
                          decision |-> r.decision]
    /\ calls' = calls + 1
    /\ UNCHANGED <<agent, agentCalls, agentLast, debate, sim, web, api>>

---------------------------------------------------------------------------
(* agents/base_agent.py and simulation/simulator.py *)

\* the dict an agent's make_decision returns (the oracle's JSON, or the HOLD fallback)
AgentDecisions ==
    [action: {"BUY", "SELL", "HOLD"}, ticker: Tickers, quantity: Quantities]

\* BaseAgent.execute_trade: (success, agent after), or KeyError
execute_trade(ag, action, ticker, quantity, price) ==
    IF action = "BUY"
    THEN LET cost == quantity * price
         IN  IF ag.cash >= cost
             THEN [raised |-> FALSE, success |-> TRUE,
                   agent |->
                      [cash |-> ag.cash - cost,
                       positions |->
                          Put(ag.positions, ticker,
                              Get(ag.positions, ticker, 0) + quantity)]]
             ELSE [raised |-> FALSE, success |-> FALSE, agent |-> ag]
    ELSE IF action = "SELL"
    THEN IF Get(ag.positions, ticker, 0) >= quantity
         THEN LET credited == [ag EXCEPT !.cash = ag.cash + quantity * price]
              IN  IF ticker \notin DOMAIN ag.positions
                  THEN \* self.positions[ticker] -= quantity raises KeyError
                       [raised |-> TRUE, success |-> FALSE, agent |-> credited]
                  ELSE LET left == ag.positions[ticker] - quantity
                       IN  [raised |-> FALSE, success |-> TRUE,
                            agent |->
                               [credited EXCEPT !.positions =
                                   IF left = 0
                                   THEN Del(ag.positions, ticker)
                                   ELSE Put(ag.positions, ticker, left)]]
         ELSE [raised |-> FALSE, success |-> FALSE, agent |-> ag]
    ELSE [raised |-> FALSE, success |-> TRUE, agent |-> ag]

\* BaseAgent.__init__ with the agents' default initial_capital
AgentInit ==
    /\ agent = [cash |-> InitialCash, positions |-> EmptyDict]
    /\ agentCalls = 0
    /\ agentLast = [outcome |-> "none"]

\* one agent's turn in TradingSimulator.run_simulation: decide, then execute
AgentTurn ==
    /\ agentCalls < MaxAgentCalls
    /\ \E decision \in AgentDecisions, price \in Prices :
          IF decision.action # "HOLD"
          THEN LET r == execute_trade(agent, decision.action, decision.ticker,
                                      decision.quantity, price)
               IN  /\ agent' = r.agent
                   /\ agentLast' =
                         [outcome |-> IF r.raised THEN "raised"
                                      ELSE IF r.success THEN "executed"
                                      ELSE "rejected",
                          decision |-> decision,
                          price |-> price,
                          before |-> agent]
          ELSE /\ agent' = agent
               /\ agentLast' = [outcome |-> "hold", decision |-> decision,
                                price |-> price, before |-> agent]
    /\ agentCalls' = agentCalls + 1
    /\ UNCHANGED <<portfolio, calls, last, debate, sim, web, api>>

---------------------------------------------------------------------------
(* agents/debate_team.py and services/llm_client.py *)

Signals == {"bullish", "bearish", "neutral"}

\* len() of the argument texts the oracle may write
ArgLens == {0, 150, 480, 700}

\* len() of str(e) for the exceptions an API call may raise
ErrMsgLens == {30}

\* one API call: it answers with a text, or it raises
Outcomes == [ok: {TRUE}, len: ArgLens] \cup [ok: {FALSE}, len: ErrMsgLens]

NoText == [kind |-> "none", len |-> 0]

\* len('{"error": ""}'), what json.dumps adds around str(e)
ErrorJsonOverhead == 13

\* a plausible slip: the except clause is missing and the exception escapes
call_claude_unguarded(outcome) ==
    IF outcome.ok
    THEN [raised |-> FALSE, text |-> [kind |-> "text", len |-> outcome.len]]
    ELSE [raised |-> TRUE, text |-> NoText]

\* LLMClient.call_claude: the reply's text, or on any exception the JSON text
\* {"error": str(e)}
call_claude(outcome) ==
    IF outcome.ok
    THEN [raised |-> FALSE, text |-> [kind |-> "text", len |-> outcome.len]]
    ELSE [raised |-> FALSE,
          text |-> [kind |-> "error_json", len |-> ErrorJsonOverhead + outcome.len]]

\* sum(1 for r in analyst_reports if r.get('signal') == signal)
CountSignal(analyst_reports, signal) ==
    Cardinality({i \in DOMAIN analyst_reports : analyst_reports[i] = signal})

\* DebateTeam._score_argument: int(min(len/100, 5) + (bullish + bearish) * 0.5),
\* computed in hundredths
_score_argument(argument, analyst_reports) ==
    LET length_score100 == IF argument.len < 500 THEN argument.len ELSE 500
        bullish_count == CountSignal(analyst_reports, "bullish")
        bearish_count == CountSignal(analyst_reports, "bearish")
        alignment_score100 == (bullish_count + bearish_count) * 50
    IN  (length_score100 + alignment_score100) \div 100

\* a plausible slip: >= for >
WinningSideTieToBull(bull_score, bear_score) ==
    IF bull_score >= bear_score THEN "bull" ELSE "bear"

\* "bull" if bull_score > bear_score else "bear"
WinningSide(bull_score, bear_score) ==
    IF bull_score > bear_score THEN "bull" ELSE "bear"

NoResult == [winning_side |-> "none"]

\* the dict debate returns
DebateResult(d) ==
    LET bull_score == _score_argument(d.bull_arg, d.analyst_reports)
        bear_score == _score_argument(d.bear_arg, d.analyst_reports)
    IN  [debate_history |-> d.debate_history,
         bull_score |-> bull_score,
         bear_score |-> bear_score,
         winning_side |-> WinningSide(bull_score, bear_score),
         score_difference |-> IF bull_score >= bear_score
                              THEN bull_score - bear_score
                              ELSE bear_score - bull_score]

\* score the debate and return
Return(d) == [d EXCEPT !.pc = "done", !.result = DebateResult(d)]

\* an exception leaves debate
Raise(d) == [d EXCEPT !.pc = "raised"]

\* a plausible slip: the bull's call is issued but not awaited, and the bear's
\* call is issued next
BullOpeningNotAwaited ==
    /\ debate.pc = "bull_opening"
    /\ debate' = [debate EXCEPT !.pc = "bear_counter"]
    /\ UNCHANGED <<portfolio, calls, last, agent, agentCalls, agentLast,
                   sim, web, api>>

\* the history of the debate's API calls: one more request was sent, for the
\* turn that follows the arguments already in, and it succeeded or failed
Attempted(d, outcome) ==
    [d EXCEPT !.attempts =
        Append(@, [turn |-> Len(d.debate_history) + 1, ok |-> outcome.ok])]

DebateIdle == debate = [pc |-> "idle"]

\* a call debate(analyst_reports, ticker, date, rounds) up to its first await
DebateStart ==
    \E rounds \in 1..MaxRounds, analyst_reports \in [1..2 -> Signals] :
       debate = [pc |-> "bull_opening",
                 rounds |-> rounds,
                 analyst_reports |-> analyst_reports,
                 debate_history |-> <<>>,
                 bull_arg |-> NoText,
                 bear_arg |-> NoText,
                 attempts |-> <<>>,
                 result |-> NoResult]

\* Round 1: the bull's opening argument arrives
BullOpening ==
    /\ debate.pc = "bull_opening"
    /\ \E outcome \in Outcomes :
          LET r == call_claude(outcome)
          IN  debate' =
                 IF r.raised THEN Raise(Attempted(debate, outcome))
                 ELSE [Attempted(debate, outcome) EXCEPT
                          !.bull_arg = r.text,
                          !.debate_history =
                              Append(@, [role |-> "bull", argument |-> r.text]),
                          !.pc = "bear_counter"]
    /\ UNCHANGED <<portfolio, calls, last, agent, agentCalls, agentLast,
                   sim, web, api>>

\* Round 1: the bear's counter-argument arrives; with rounds < 2 debate returns
BearCounter ==
    /\ debate.pc = "bear_counter"
    /\ \E outcome \in Outcomes :
          LET r == call_claude(outcome)
              d == [Attempted(debate, outcome) EXCEPT
                       !.bear_arg = r.text,
                       !.debate_history =
                           Append(@, [role |-> "bear", argument |-> r.text])]
          IN  debate' =
                 IF r.raised THEN Raise(Attempted(debate, outcome))
                 ELSE IF debate.rounds >= 2
                 THEN [d EXCEPT !.pc = "bull_rebuttal"]
                 ELSE Return(d)
    /\ UNCHANGED <<portfolio, calls, last, agent, agentCalls, agentLast,
                   sim, web, api>>

\* Round 2: the bull's rebuttal arrives
BullRebuttal ==
    /\ debate.pc = "bull_rebuttal"
    /\ \E outcome \in Outcomes :
          LET r == call_claude(outcome)
          IN  debate' =
                 IF r.raised THEN Raise(Attempted(debate, outcome))
                 ELSE [Attempted(debate, outcome) EXCEPT
                          !.debate_history =
                              Append(@, [role |-> "bull", argument |-> r.text,
                                         is_rebuttal |-> TRUE]),
                          !.pc = "bear_rebuttal"]
    /\ UNCHANGED <<portfolio, calls, last, agent, agentCalls, agentLast,
                   sim, web, api>>

\* Round 2: the bear's rebuttal arrives and debate returns
BearRebuttal ==
    /\ debate.pc = "bear_rebuttal"
    /\ \E outcome \in Outcomes :
          LET r == call_claude(outcome)
              d == [Attempted(debate, outcome) EXCEPT
                       !.debate_history =
                           Append(@, [role |-> "bear", argument |-> r.text,
                                      is_rebuttal |-> TRUE])]
          IN  debate' = IF r.raised THEN Raise(Attempted(debate, outcome)) ELSE Return(d)
    /\ UNCHANGED <<portfolio, calls, last, agent, agentCalls, agentLast,
                   sim, web, api>>

---------------------------------------------------------------------------
(* agents/analysts.py *)

AnalystNames == <<"technical", "sentiment">>

\* the JSON object the analysis prompt asks for
GoodAnalysis == [signal |-> "bullish", confidence |-> 70, summary |-> "s"]

\* the same without its summary
AnalysisNoSummary == [signal |-> "bearish", confidence |-> 60]

\* what the analysis oracle call returns: the JSON asked for, JSON that lacks
\* a key, the {"error": ...} JSON of a failed API call, or text with no JSON
AnalystResponses ==
    [parsed: {TRUE}, json: {GoodAnalysis, AnalysisNoSummary, ErrorDict}]
    \cup {[parsed |-> FALSE, json |-> EmptyDict]}

\* TechnicalAnalyst.analyze / SentimentAnalyst.analyze from the oracle's reply
\* on: extract_json, then the analyst and timestamp keys are set
analyze(analyst, date, response) ==
    LET parsed == extract_json(response)
    IN  IF parsed.raised
        THEN [raised |-> TRUE, report |-> EmptyDict]
        ELSE [raised |-> FALSE,
              report |-> Put(Put(parsed.value, "analyst", analyst),
                             "timestamp", date)]

---------------------------------------------------------------------------
(* run_simulation.py: TradingSimulation *)

\* self.traders, in insertion order
TraderNames == <<"Claude", "GPT-4", "Gemini">>

TraderSet == {TraderNames[i] : i \in DOMAIN TraderNames}

\* tickers, in list order
TickerOrder == <<"AAPL", "MSFT">>

\* the run is cut after this many (date, ticker) steps
MaxSteps == 3

\* at most this many failures (data, analysis, decision) are injected in a run
MaxFaults == 1

\* the nested loops of run_full_simulation: for day in trading_days, for ticker
\* in tickers; dates are numbered 1, 2, ... in ascending order
ScheduleTickerMajor(i) ==
    [date |-> ((i - 1) % 2) + 1,
     ticker |-> TickerOrder[((i - 1) \div 2) + 1]]

Schedule(i) ==
    [date |-> ((i - 1) \div Len(TickerOrder)) + 1,
     ticker |-> TickerOrder[((i - 1) % Len(TickerOrder)) + 1]]

\* the market data: the closing price of a ticker on a date
PriceOf(ticker, date) ==
    IF ticker = "AAPL" THEN 170 + 5 * date ELSE 400 + 10 * date

\* data_loader.get_price_data: the price data, or an exception when the data
\* for the step cannot be loaded
get_price_data(ticker, date, available) ==
    IF available
    THEN [raised |-> FALSE, value |-> [current_price |-> PriceOf(ticker, date)]]
    ELSE [raised |-> TRUE, value |-> EmptyDict]

\* the decision oracle's replies during a run
SimDecision(ticker, quantity, confidence) ==
    [action |-> "BUY", ticker |-> ticker, quantity |-> quantity,
     confidence |-> confidence, reasoning |-> <<"r">>,
     risk_assessment |-> "low"]

SimResponses(ticker) ==
    {[parsed |-> TRUE, json |-> SimDecision(ticker, 5, 80)],
     [parsed |-> TRUE, json |-> SimDecision(ticker, -1, 150)],
     [parsed |-> TRUE, json |-> ErrorDict],
     [parsed |-> FALSE, json |-> EmptyDict]}

\* a reply that is an injected failure
FailedReply(response) ==
    \/ ~response.parsed
    \/ response.json = ErrorDict
    \/ response.json = AnalysisNoSummary

\* len() of the bull's opening argument in a run
SimArgLens == {700}

\* Trader.get_portfolio_value: cash + sum(quantity * prices.get(ticker, 0))
get_portfolio_value(pf, prices) ==
    LET held == DOMAIN pf.positions
        RECURSIVE Sum(_)
        Sum(S) == IF S = {} THEN 0
                  ELSE LET t == CHOOSE x \in S : TRUE
                       IN  pf.positions[t] * Get(prices, t, 0) + Sum(S \ {t})
    IN  pf.cash + Sum(held)

\* a plausible slip: the record keeps the trader's positions dict itself
SnapshotAlias(name, positions) == [owner |-> name, value |-> positions]

\* trader.portfolio['positions'].copy()
Snapshot(name, positions) == [owner |-> "copy", value |-> positions]

\* what reading a recorded positions entry yields: the copy, or the dict of
\* the trader it refers to as it is now
Deref(entry, traders) ==
    IF entry.owner = "copy" THEN entry.value ELSE traders[entry.owner].positions

\* the day_result dict of run_day
DayResult(s) ==
    LET at == Schedule(s.step)
    IN  [date |-> at.date,
         ticker |-> at.ticker,
         price |-> s.price,
         analyst_reports |-> s.reports,
         debate |-> s.verdict,
         decisions |-> s.decisions,
         portfolios |->
            [name \in TraderSet |->
                [value |-> get_portfolio_value(s.traders[name],
                                               Put(EmptyDict, at.ticker,
                                                   s.price)),
                 cash |-> s.traders[name].cash,
                 positions |-> Snapshot(name, s.traders[name].positions)]]]

\* self.results as a reader sees it
ReadResults(s) ==
    [i \in DOMAIN s.results |->
        [s.results[i] EXCEPT !.portfolios =
            [name \in TraderSet |->
                [@[name] EXCEPT !.positions = Deref(@, s.traders)]]]]

\* the history of the run keeps, for the step that just ended, how it ended,
\* every trader's portfolio before and after it and the decisions taken in it
Logged(s, outcome) ==
    [s EXCEPT !.log = Append(@, [step |-> s.step,
                                 outcome |-> outcome,
                                 before |-> s.before,
                                 after |-> s.traders,
                                 decisions |-> s.decisions])]

\* the loops of run_full_simulation move to the next (date, ticker)
Continue(s) ==
    [s EXCEPT !.step = @ + 1,
              !.pc = IF s.step + 1 > MaxSteps THEN "finished" ELSE "start",
              !.price = 0,
              !.pending = {},
              !.reports = <<>>,
              !.verdict = NoResult,
              !.decisions = EmptyDict,
              !.idx = 1]

\* a plausible slip: no try/except around run_day, the exception ends the run
StepRaisedUncaught(s, outcome) ==
    [Logged(s, outcome) EXCEPT !.pc = "crashed"]

\* except Exception: print, continue
StepRaised(s, outcome) == Continue(Logged(s, outcome))

\* self.results.append(day_result), return
StepRecorded(s) ==
    Continue(Logged([s EXCEPT !.results = Append(@, DayResult(s))], "recorded"))

\* TradingSimulation.__init__
SimInit ==
    sim = [pc |-> "start",
           step |-> 1,
           traders |-> [name \in TraderSet |->
                           [cash |-> InitialCash, positions |-> EmptyDict]],
           results |-> <<>>,
           before |-> [name \in TraderSet |->
                          [cash |-> InitialCash, positions |-> EmptyDict]],
           price |-> 0,
           pending |-> {},
           reports |-> <<>>,
           verdict |-> NoResult,
           decisions |-> EmptyDict,
           idx |-> 1,
           orphans |-> 0,
           faults |-> 0,
           analysis |-> [outcome |-> "none"],
           log |-> <<>>]

\* run_day up to its first await: the price is loaded and both analysts start
StartStep ==
    /\ sim.pc = "start"
    /\ \E available \in BOOLEAN :
          /\ ~available => sim.faults < MaxFaults
          /\ LET at == Schedule(sim.step)
                 price_data == get_price_data(at.ticker, at.date, available)
                 s == [sim EXCEPT !.before = sim.traders,
                                  !.faults = IF available THEN @ ELSE @ + 1]
             IN  sim' =
                    IF price_data.raised
                    THEN StepRaised(s, "data_failed")
                    ELSE [s EXCEPT !.pc = "analysts",
                                   !.price = price_data.value.current_price,
                                   !.pending = {1, 2},
                                   !.reports = <<EmptyDict, EmptyDict>>]
    /\ UNCHANGED <<portfolio, calls, last, agent, agentCalls, agentLast,
                   debate, web, api>>

\* the report line run_day prints reads these keys
Printable(report) == {"analyst", "signal", "confidence"} \subseteq DOMAIN report

\* one analyst's oracle call comes back and its analyze finishes; gather
\* raises at the first exception and returns once both reports are in, and
\* run_day then prints every report
AnalystReturns ==
    /\ sim.pc = "analysts"
    /\ \E i \in sim.pending, response \in AnalystResponses :
          /\ FailedReply(response) => sim.faults < MaxFaults
          /\ LET at == Schedule(sim.step)
                 r == analyze(AnalystNames[i], at.date, response)
                 reports == [sim.reports EXCEPT ![i] = r.report]
                 s == [sim EXCEPT
                          !.faults = IF FailedReply(response) THEN @ + 1 ELSE @,
                          !.analysis = [outcome |-> IF r.raised THEN "raised"
                                                    ELSE "returned",
                                        analyst |-> AnalystNames[i],
                                        response |-> response,
                                        report |-> r.report],
                          !.pending = @ \ {i}]
             IN  sim' =
                    IF r.raised
                    THEN StepRaised([s EXCEPT !.orphans =
                                        @ + Cardinality(s.pending)],
                                    "analysis_failed")
                    ELSE IF s.pending # {}
                    THEN [s EXCEPT !.reports = reports]
                    ELSE IF \E j \in DOMAIN reports : ~Printable(reports[j])
                    THEN StepRaised([s EXCEPT !.reports = reports],
                                    "analysis_failed")
                    ELSE [s EXCEPT !.reports = reports, !.pc = "debate"]
    /\ UNCHANGED <<portfolio, calls, last, agent, agentCalls, agentLast,
                   debate, web, api>>

\* an analyst of a step that already failed finishes; nothing awaits it
OrphanReturns ==
    /\ sim.orphans > 0
    /\ sim' = [sim EXCEPT !.orphans = @ - 1]
    /\ UNCHANGED <<portfolio, calls, last, agent, agentCalls, agentLast,
                   debate, web, api>>

\* await self.debate_team.debate(analyst_reports, ticker, date, rounds=2)
DebateStage ==
    /\ sim.pc = "debate"
    /\ \E len \in SimArgLens :
          LET bull == call_claude([ok |-> TRUE, len |-> len]).text
              bear == call_claude([ok |-> TRUE, len |-> 480]).text
              d == [bull_arg |-> bull,
                    bear_arg |-> bear,
                    analyst_reports |->
                        [j \in DOMAIN sim.reports |->
                            Get(sim.reports[j], "signal", "none")],
                    debate_history |->
                        <<[role |-> "bull", argument |-> bull],
                          [role |-> "bear", argument |-> bear],
                          [role |-> "bull", argument |-> bull,
                           is_rebuttal |-> TRUE],
                          [role |-> "bear", argument |-> bear,
                           is_rebuttal |-> TRUE]>>]
          IN  sim' = [sim EXCEPT !.verdict = DebateResult(d),
                                 !.pc = "traders",
                                 !.idx = 1,
                                 !.decisions = EmptyDict]
    /\ UNCHANGED <<portfolio, calls, last, agent, agentCalls, agentLast,
                   debate, web, api>>

\* Trader._format_reports reads these keys of every report
Formattable(report) ==
    {"analyst", "signal", "confidence", "summary"} \subseteq DOMAIN report

\* the lines run_day prints for a decision read these keys
DecisionPrintable(decision) ==
    {"action", "quantity", "confidence", "risk_assessment"}
        \subseteq DOMAIN decision

\* a plausible slip: the record is built inside the loop, after the first trader
LastTraderIsFirst(idx) == TRUE

\* the loop over self.traders.items() has reached its last trader
LastTrader(idx) == idx = Len(TraderNames)

\* a plausible slip: portfolio is a class attribute, one dict for all traders
WritePortfolioShared(traders, name, pf) == [n \in DOMAIN traders |-> pf]

\* each Trader owns the portfolio dict made in its __init__; _execute_trade
\* writes self.portfolio only
WritePortfolio(traders, name, pf) == [traders EXCEPT ![name] = pf]

\* one turn of the loop over self.traders: the trader's make_decision comes
\* back (it raises before its oracle call when a report cannot be formatted),
\* the decision is kept and printed; an exception leaves run_day; after the
\* last trader the step's record is built and appended
TraderDecides ==
    /\ sim.pc = "traders"
    /\ \E response \in SimResponses(Schedule(sim.step).ticker) :
          LET at == Schedule(sim.step)
              name == TraderNames[sim.idx]
              called == \A j \in DOMAIN sim.reports : Formattable(sim.reports[j])
              failed == called /\ FailedReply(response)
              r == IF called
                   THEN make_decision(sim.traders[name], at.ticker,
                                      sim.price, response)
                   ELSE [raised |-> TRUE, decision |-> EmptyDict,
                         portfolio |-> sim.traders[name]]
              s == [sim EXCEPT !.faults = IF failed THEN @ + 1 ELSE @,
                               !.traders = WritePortfolio(@, name, r.portfolio)]
              decided == [s EXCEPT !.decisions = Put(@, name, r.decision)]
          IN  /\ failed => sim.faults < MaxFaults
              /\ sim' =
                    IF r.raised
                    THEN StepRaised(s, "decision_failed")
                    ELSE IF ~DecisionPrintable(r.decision)
                    THEN StepRaised(decided, "decision_failed")
                    ELSE IF LastTrader(sim.idx)
                    THEN StepRecorded(decided)
                    ELSE [decided EXCEPT !.idx = @ + 1]
    /\ UNCHANGED <<portfolio, calls, last, agent, agentCalls, agentLast,
                   debate, web, api>>

---------------------------------------------------------------------------
(* frontend/src/lib/api.ts *)

ApiFunctions ==
    {"getAgentsStatus", "getTechnicalAnalysis", "getSentimentAnalysis",
     "conductDebate", "runSimulation", "getSimulationStatus",
     "getSimulationSummary"}

\* the ways an axios request fails: no connection, or a status outside 2xx
HttpFailures ==
    {[error |-> "network"], [error |-> "http_404"], [error |-> "http_500"]}

\* response.data of a request that succeeded, for the functions whose body
\* the page does not look into
ApiBodies == {[body |-> "a"], [body |-> "b"]}

\* the outcome of one HTTP request
HttpOutcomes == [ok: {TRUE}, data: ApiBodies] \cup [ok: {FALSE}, data: HttpFailures]

\* the mock data each function returns from its catch block
MockFallback(fn) ==
    CASE fn = "getSimulationStatus" -> [status |-> "idle", progress |-> 0]
      [] fn = "runSimulation" ->
            [message |-> "Simulation started",
             status_url |-> "/api/simulation/status"]
      [] OTHER -> [mock |-> fn]

\* a plausible slip: the catch block logs and rethrows
ApiRequestRethrow(fn, outcome) ==
    IF outcome.ok
    THEN [rejected |-> FALSE, value |-> outcome.data]
    ELSE [rejected |-> TRUE, value |-> MockFallback(fn)]

\* every exported function: try { return (await api.get/post(...)).data }
\* catch { return <mock data> }
ApiRequest(fn, outcome) ==
    IF outcome.ok
    THEN [rejected |-> FALSE, value |-> outcome.data]
    ELSE [rejected |-> FALSE, value |-> MockFallback(fn)]

MaxApiCalls == 3

ApiInit == api = [calls |-> 0]

\* a caller awaits one of the API client functions
ApiCall ==
    /\ api.calls < MaxApiCalls
    /\ \E fn \in ApiFunctions, outcome \in HttpOutcomes :
          api' = [calls |-> api.calls + 1,
                  fn |-> fn,
                  outcome |-> outcome,
                  result |-> ApiRequest(fn, outcome)]
    /\ UNCHANGED <<portfolio, calls, last, agent, agentCalls, agentLast,
                   debate, sim, web>>

---------------------------------------------------------------------------
(* frontend/src/app/page.tsx: handleRunSimulation, and the backend run it polls *)

\* the interval fires at most this many times
MaxPolls == 3

\* progress values a running simulation reports before it ends
ProgressValues == {30, 60}

\* the run as the backend reports it at GET /api/simulation/status
BackendIdle == [status |-> "idle", progress |-> 0]

\* the run makes progress: progress only grows and stays below 100
BackendAdvance ==
    /\ web.backend.status = "running"
    /\ \E p \in ProgressValues :
          /\ p > web.backend.progress
          /\ web' = [web EXCEPT !.backend.progress = p]
    /\ UNCHANGED <<portfolio, calls, last, agent, agentCalls, agentLast,
                   debate, sim, api>>

\* the run completes: progress is 100 exactly then
BackendComplete ==
    /\ web.backend.status = "running"
    /\ web' = [web EXCEPT !.backend = [status |-> "completed", progress |-> 100]]
    /\ UNCHANGED <<portfolio, calls, last, agent, agentCalls, agentLast,
                   debate, sim, api>>

\* the run ends in error: progress stays where it was
BackendFail ==
    /\ web.backend.status = "running"
    /\ web' = [web EXCEPT !.backend.status = "error"]
    /\ UNCHANGED <<portfolio, calls, last, agent, agentCalls, agentLast,
                   debate, sim, api>>

\* useState initial values of Home
WebInit ==
    web = [pc |-> "idle",
           loading |-> FALSE,
           interval |-> FALSE,
           backend |-> BackendIdle,
           polls |-> <<>>,
           observed |-> <<>>,
           summaryPending |-> 0,
           summaryFetched |-> 0,
           simulationData |-> [null |-> TRUE]]

\* Run Simulation is clicked: setLoading(true), runSimulation is called
ClickRun ==
    /\ web.pc = "idle"
    /\ web' = [web EXCEPT !.pc = "starting", !.loading = TRUE]
    /\ UNCHANGED <<portfolio, calls, last, agent, agentCalls, agentLast,
                   debate, sim, api>>

\* await runSimulation(...) comes back (the POST started the run, or it failed
\* and the mock is returned) and the interval is set; a rejection goes to the
\* catch block
RunReturns ==
    /\ web.pc = "starting"
    /\ \E ok \in BOOLEAN :
          LET r == ApiRequest("runSimulation",
                              [ok |-> ok,
                               data |-> IF ok THEN [body |-> "a"]
                                       ELSE [error |-> "network"]])
              started == [web EXCEPT !.backend =
                            IF ok THEN [status |-> "running", progress |-> 0]
                            ELSE @]
          IN  web' = IF r.rejected
                     THEN [started EXCEPT !.pc = "failed", !.loading = FALSE]
                     ELSE [started EXCEPT !.pc = "polling", !.interval = TRUE]
    /\ UNCHANGED <<portfolio, calls, last, agent, agentCalls, agentLast,
                   debate, sim, api>>

\* the interval fires: the callback calls getSimulationStatus and awaits it
Tick ==
    /\ web.interval
    /\ Len(web.polls) < MaxPolls
    /\ web' = [web EXCEPT !.polls = Append(@, [stage |-> "inflight"])]
    /\ UNCHANGED <<portfolio, calls, last, agent, agentCalls, agentLast,
                   debate, sim, api>>

\* a status request is answered with the run's status of that moment, or fails
StatusAnswered ==
    /\ \E i \in DOMAIN web.polls, ok \in BOOLEAN :
          /\ web.polls[i].stage = "inflight"
          /\ LET r == ApiRequest("getSimulationStatus",
                                 [ok |-> ok,
                                  data |-> IF ok THEN web.backend
                                           ELSE [error |-> "network"]])
             IN  web' = [web EXCEPT !.polls[i] =
                            [stage |-> "answered",
                             rejected |-> r.rejected,
                             status |-> r.value]]
    /\ UNCHANGED <<portfolio, calls, last, agent, agentCalls, agentLast,
                   debate, sim, api>>

\* the callback resumes with the status: setSimulationStatus(status); on
\* completed it clears the interval and calls getSimulationSummary; on error
\* it clears the interval and sets loading to false; a rejected await ends
\* the callback
PollResumes ==
    /\ \E i \in DOMAIN web.polls :
          /\ web.polls[i].stage = "answered"
          /\ LET status == web.polls[i].status
                 done == [web EXCEPT !.polls[i] = [stage |-> "done"]]
                 shown == [done EXCEPT !.observed = Append(@, status)]
             IN  web' =
                    IF web.polls[i].rejected THEN done
                    ELSE IF status.status = "completed"
                    THEN [shown EXCEPT !.interval = FALSE,
                                       !.summaryPending = @ + 1]
                    ELSE IF status.status = "error"
                    THEN [shown EXCEPT !.interval = FALSE, !.loading = FALSE]
                    ELSE shown
    /\ UNCHANGED <<portfolio, calls, last, agent, agentCalls, agentLast,
                   debate, sim, api>>

\* await getSimulationSummary() comes back: setSimulationData(summary),
\* setLoading(false)
SummaryReturns ==
    /\ web.summaryPending > 0
    /\ \E outcome \in HttpOutcomes :
          LET r == ApiRequest("getSimulationSummary", outcome)
              back == [web EXCEPT !.summaryPending = @ - 1,
                                  !.summaryFetched = @ + 1]
          IN  web' = IF r.rejected THEN back
                     ELSE [back EXCEPT !.simulationData = r.value,
                                       !.loading = FALSE]
    /\ UNCHANGED <<portfolio, calls, last, agent, agentCalls, agentLast,
                   debate, sim, api>>

---------------------------------------------------------------------------
(* Specifications *)

Init == TraderInit /\ AgentInit /\ DebateIdle /\ SimInit /\ WebInit /\ ApiInit

Next == MakeDecision

\* the Trader: any sequence of make_decision calls
Spec == Init /\ [][Next]_vars

AgentNext == AgentTurn

\* the BaseAgent under TradingSimulator.run_simulation
AgentSpec == Init /\ [][AgentNext]_vars

DebateInit ==
    TraderInit /\ AgentInit /\ DebateStart /\ SimInit /\ WebInit /\ ApiInit

DebateNext == BullOpening \/ BearCounter \/ BullRebuttal \/ BearRebuttal

\* one DebateTeam.debate call
DebateSpec == DebateInit /\ [][DebateNext]_vars

\* the same, every awaited API call coming back (with a reply or an exception)
DebateFairSpec == DebateSpec /\ WF_vars(DebateNext)

SimNext ==
    StartStep \/ AnalystReturns \/ OrphanReturns \/ DebateStage \/ TraderDecides

\* one run of TradingSimulation.run_full_simulation
SimSpec == Init /\ [][SimNext]_vars

ApiNext == ApiCall

\* calls of the API client functions, each with any outcome of its request
ApiSpec == Init /\ [][ApiNext]_vars

PollNext ==
    \/ ClickRun \/ RunReturns \/ Tick \/ StatusAnswered \/ PollResumes
    \/ SummaryReturns \/ BackendAdvance \/ BackendComplete \/ BackendFail

\* one click on Run Simulation, the polling it starts and the backend's run
PollSpec == Init /\ [][PollNext]_vars

\* the same, every pending event (timer tick, HTTP reply, resumed callback,
\* backend progress) eventually taking place
PollFairSpec == PollSpec /\ WF_vars(PollNext)

---------------------------------------------------------------------------
(* Properties of the Trader (agents/trader.py) *)

Held(pf, t) == Get(pf.positions, t, 0)

\* make_decision returned a decision (it did not raise)
Returned == last.outcome = "returned"

\* the quantity the oracle asked for, as _validate_decision reads it
Requested == Get(last.response.json, "quantity", 0)

\* the action the oracle asked for, as _validate_decision reads it
RequestedAction == Get(last.response.json, "action", "HOLD")

\* shares of t added by the last call (negative: removed)
Bought(t) == Held(portfolio, t) - Held(last.before, t)

Sold(t) == Held(last.before, t) - Held(portfolio, t)

\* C1: after any sequence of make_decision calls, whatever action, integer
\* quantity and positive price, the trader's cash is never negative and no
\* held position quantity is negative.
C1_CashAndPositionsNonNegative ==
    /\ portfolio.cash >= 0
    /\ \A t \in DOMAIN portfolio.positions : portfolio.positions[t] >= 0

\* a second call that asked to BUY a negative quantity, shares being held
C1_Witness ==
    /\ calls = 2
    /\ Returned
    /\ last.decision["action"] = "BUY"
    /\ Requested < 0
    /\ DOMAIN portfolio.positions # {}

\* C2: for every BUY decision the applied quantity q has
\* q * price <= 0.3 * cash_before, and when the oracle asked for more than the
\* cap allows the applied quantity is exactly floor(0.3 * cash_before / price).
C2_BuyCap ==
    (Returned /\ last.decision["action"] = "BUY") =>
       LET q == last.decision["quantity"]
           t == last.decision["ticker"]
           cap == (3 * last.before.cash) \div (10 * last.price)
       IN  /\ 10 * q * last.price <= 3 * last.before.cash
           /\ 10 * Bought(t) * last.price <= 3 * last.before.cash
           /\ Requested > cap => (q = cap /\ Bought(t) = cap)

\* a BUY of 50 at 175 out of 10000 cash, cut down to 17 shares
C2_Witness ==
    /\ Returned
    /\ last.decision["action"] = "BUY"
    /\ Requested = 50
    /\ last.price = 175
    /\ last.before.cash = InitialCash
    /\ Bought(last.decision["ticker"]) = 17

C4_ExactTradeValue ==
    Returned =>
       LET a == last.decision["action"]
           q == last.decision["quantity"]
           t == last.decision["ticker"]
           p == last.price
           other == CHOOSE u \in Tickers : u # t
       IN  /\ portfolio # last.before =>
                 /\ a \in {"BUY", "SELL"}
                 /\ q > 0
                 /\ Bought(other) = 0
                 /\ a = "BUY" =>
                       /\ portfolio.cash = last.before.cash - q * p
                       /\ Held(portfolio, t) = Held(last.before, t) + q
                 /\ a = "SELL" =>
                       /\ portfolio.cash = last.before.cash + q * p
                       /\ Held(portfolio, t) = Held(last.before, t) - q
           /\ portfolio.cash + p * (Held(portfolio, t) + Held(portfolio, other))
                 = last.before.cash
                      + p * (Held(last.before, t) + Held(last.before, other))

\* a second BUY of a ticker already held, applied in full
C4_Witness ==
    /\ calls = 2
    /\ Returned
    /\ last.decision["action"] = "BUY"
    /\ Held(last.before, last.decision["ticker"]) > 0
    /\ Bought(last.decision["ticker"]) = last.decision["quantity"]
    /\ last.decision["quantity"] > 0

\* C6: from cash 10000 and no positions, a BUY request of 50 at price 175 is
\* clamped to 17 and leaves cash 7025 and positions {AAPL: 17}; a following
\* SELL request of 20 at price 180 is clamped to 17 and leaves cash 10085 and
\* no positions.
C6_Scenario ==
    LET asked(a, q) ==
           /\ last.outcome # "none"
           /\ last.ticker = "AAPL"
           /\ last.response.parsed
           /\ last.response.json =
                 [action |-> a, ticker |-> "AAPL", quantity |-> q,
                  reasoning |-> <<"r">>]
    IN  /\ (/\ asked("BUY", 50)
            /\ last.price = 175
            /\ last.before = [cash |-> 10000, positions |-> EmptyDict])
           => /\ Returned
              /\ last.decision["quantity"] = 17
              /\ portfolio = [cash |-> 7025, positions |-> [k \in {"AAPL"} |-> 17]]
        /\ (/\ asked("SELL", 20)
            /\ last.price = 180
            /\ last.before = [cash |-> 7025, positions |-> [k \in {"AAPL"} |-> 17]])
           => /\ Returned
              /\ last.decision["quantity"] = 17
              /\ portfolio = [cash |-> 10085, positions |-> EmptyDict]

\* the scenario's second day: the SELL of 20 at 180 after the BUY at 175
C6_Witness ==
    /\ calls = 2
    /\ last.outcome = "returned"
    /\ last.price = 180
    /\ last.response.json["action"] = "SELL"
    /\ last.response.json["quantity"] = 20
    /\ last.before = [cash |-> 7025, positions |-> [k \in {"AAPL"} |-> 17]]
    /\ portfolio.cash = 10085
    /\ DOMAIN portfolio.positions = {}

\* C7: a decision that is HOLD, or a BUY/SELL whose quantity after validation
\* is 0, leaves cash and every position unchanged, and the returned decision
\* keeps the action label the oracle gave (BUY/SELL is not rewritten to HOLD).
C7_NoOpKeepsLabel ==
    /\ (Returned /\ (last.decision["action"] = "HOLD" \/ last.decision["quantity"] = 0))
       => /\ portfolio = last.before
          /\ last.decision["action"] = Upper(RequestedAction)
          /\ RequestedAction \in {"BUY", "SELL"} =>
                last.decision["action"] = RequestedAction
    /\ (last.outcome = "raised" /\ Upper(RequestedAction) = "HOLD")
       => portfolio = last.before

\* a BUY of 50 at a price the 30% cap cannot pay once: validated to quantity 0
C7_Witness ==
    /\ Returned
    /\ RequestedAction = "BUY"
    /\ Requested = 50
    /\ last.decision["action"] = "BUY"
    /\ last.decision["quantity"] = 0
    /\ portfolio = last.before

---------------------------------------------------------------------------
(* Properties of the BaseAgent (agents/base_agent.py) *)

\* C5: in every reachable portfolio state each ticker key present in
\* positions maps to a strictly positive share count (a SELL to 0 removes the
\* key; no operation, a BUY of quantity 0 included, adds a key with count 0).
C5_PresentKeysPositive ==
    /\ \A t \in DOMAIN portfolio.positions : portfolio.positions[t] > 0
    /\ \A t \in DOMAIN agent.positions : agent.positions[t] > 0

---------------------------------------------------------------------------
(* Properties of the DebateTeam (agents/debate_team.py) *)

Done == debate.pc = "done"

\* C8: winning_side is the advocate (bull) only when the advocate score is
\* strictly greater than the skeptic score; for equal scores and for a lower
\* advocate score it is the skeptic (bear).
C8_TieGoesToSkeptic ==
    Done =>
       /\ debate.result.winning_side \in {"bull", "bear"}
       /\ debate.result.winning_side = "bull" <=>
             debate.result.bull_score > debate.result.bear_score
       /\ debate.result.bull_score <= debate.result.bear_score =>
             debate.result.winning_side = "bear"

\* a finished debate with equal, non-zero scores, won by the bear
C8_Witness ==
    /\ Done
    /\ debate.result.bull_score = debate.result.bear_score
    /\ debate.result.bull_score > 0
    /\ debate.result.winning_side = "bear"

\* C9: for every rounds value in {1,2,3} debate returns a verdict whose
\* argument sequence holds exactly 2*rounds arguments.
C9_TwoArgumentsPerRound ==
    (Done /\ debate.rounds \in {1, 2, 3}) =>
       Len(debate.result.debate_history) = 2 * debate.rounds

\* the verdict debate returned is complete
CompleteVerdict ==
    /\ DOMAIN debate.result =
          {"debate_history", "bull_score", "bear_score", "winning_side",
           "score_difference"}
    /\ Len(debate.result.debate_history) >= 2
    /\ \A i \in DOMAIN debate.result.debate_history :
          /\ debate.result.debate_history[i].role = (IF i % 2 = 1 THEN "bull" ELSE "bear")
          /\ debate.result.debate_history[i].argument.kind \in {"text", "error_json"}
    /\ debate.result.bull_score \in Nat
    /\ debate.result.bear_score \in Nat
    /\ debate.result.winning_side \in {"bull", "bear"}

\* C10: a debate always terminates with a complete verdict (argument sequence,
\* both scores, winning_side) whichever of its oracle calls fail; no oracle
\* failure propagates out of debate.
C10_DebateTerminates == <>[](Done /\ CompleteVerdict)

\* a finished debate one of whose oracle calls failed
C10_Witness ==
    /\ Done
    /\ CompleteVerdict
    /\ \E i \in DOMAIN debate.result.debate_history :
          debate.result.debate_history[i].argument.kind = "error_json"

---------------------------------------------------------------------------
(* Properties of the analysts and of the Trader when the oracle fails *)

\* the oracle call failed (its text is the {"error": ...} JSON) or its text
\* holds no JSON
OracleFailed(response) == ~response.parsed \/ response.json = ErrorDict

\* C11: when the oracle errors or returns text that cannot be parsed, analyze
\* still returns a well-formed opinion with signal = neutral and
\* confidence = 0, and never throws.
C11_NeutralOnOracleFailure ==
    (sim.analysis.outcome # "none" /\ OracleFailed(sim.analysis.response)) =>
       /\ sim.analysis.outcome = "returned"
       /\ Get(sim.analysis.report, "signal", "none") = "neutral"
       /\ Get(sim.analysis.report, "confidence", -1) = 0

\* C12: when the oracle's text for a decision cannot be parsed or the oracle
\* call failed, make_decision returns HOLD with quantity 0, the portfolio is
\* unchanged and no exception leaves make_decision.
C12_HoldOnOracleFailure ==
    (last.outcome # "none" /\ OracleFailed(last.response)) =>
       /\ last.outcome = "returned"
       /\ last.decision.action = "HOLD"
       /\ last.decision.quantity = 0
       /\ portfolio = last.before

---------------------------------------------------------------------------
(* Properties of TradingSimulation (run_simulation.py) *)

TickerIndex(ticker) == CHOOSE i \in DOMAIN TickerOrder : TickerOrder[i] = ticker

\* a comes before b in the order ascending date, then ticker order
Precedes(a, b) ==
    \/ a.date < b.date
    \/ a.date = b.date /\ TickerIndex(a.ticker) < TickerIndex(b.ticker)

\* the results hold a record for the (date, ticker) of step n
RecordedStep(n) ==
    \E j \in DOMAIN sim.results :
       /\ sim.results[j].date = Schedule(n).date
       /\ sim.results[j].ticker = Schedule(n).ticker

FreshPortfolios ==
    [name \in TraderSet |-> [cash |-> InitialCash, positions |-> EmptyDict]]

\* C13: a step whose data loading or analysis fails (debate has no failing
\* path) appends no record and changes no trader's portfolio, the run does not
\* halt, and every (date, ticker) pair is processed in turn up to the last.
C13_FailedStepSkipped ==
    /\ sim.pc # "crashed"
    /\ \A i \in DOMAIN sim.log :
          /\ sim.log[i].step = i
          /\ sim.log[i].outcome \in {"data_failed", "analysis_failed"} =>
                /\ sim.log[i].after = sim.log[i].before
                /\ ~RecordedStep(i)
    /\ sim.pc = "finished" => Len(sim.log) = MaxSteps

\* a finished run in which a step failed before its decisions while traders
\* held positions, and the step after it was recorded
C13_Witness ==
    /\ sim.pc = "finished"
    /\ \E i \in DOMAIN sim.log :
          /\ sim.log[i].outcome \in {"data_failed", "analysis_failed"}
          /\ sim.log[i].before # FreshPortfolios
          /\ i + 1 \in DOMAIN sim.log
          /\ sim.log[i + 1].outcome = "recorded"

\* C14: when one trader's make_decision fails in a step, every other trader
\* still decides and has its decision recorded for that step.
C14_TraderIsolation ==
    \A i \in DOMAIN sim.log :
       sim.log[i].outcome = "decision_failed" =>
          \E j \in DOMAIN sim.results :
             /\ sim.results[j].date = Schedule(i).date
             /\ sim.results[j].ticker = Schedule(i).ticker
             /\ Cardinality(DOMAIN sim.results[j].decisions)
                   >= Len(TraderNames) - 1

\* C16: a record once appended is never changed by a later step or trade:
\* every read of the results yields the earlier records as they were.
C16_RecordsNeverChange ==
    [][LET earlier == ReadResults(sim)
           later == ReadResults(sim')
       IN  \A i \in DOMAIN earlier :
              i \in DOMAIN later /\ later[i] = earlier[i]]_vars

\* a finished run with a record whose trader traded again afterwards
C16_Witness ==
    /\ sim.pc = "finished"
    /\ \E i \in DOMAIN sim.results, name \in TraderSet :
          /\ DOMAIN sim.results[i].portfolios[name].positions.value # {}
          /\ sim.results[i].portfolios[name].positions.value
                # sim.traders[name].positions

\* C17: steps run one at a time in ascending date order and, within a date,
\* in ticker order; a step begins only after every earlier step has ended;
\* the records are in that order, at most one per (date, ticker).
C17_StepsInOrder ==
    /\ \A i, j \in DOMAIN sim.log :
          i < j => Precedes(Schedule(sim.log[i].step), Schedule(sim.log[j].step))
    /\ \A i, j \in DOMAIN sim.results :
          i < j => Precedes(sim.results[i], sim.results[j])
    /\ sim.pc \in {"analysts", "debate", "traders"} =>
          /\ Len(sim.log) = sim.step - 1
          /\ ~RecordedStep(sim.step)
          /\ sim.before = IF sim.log = <<>> THEN FreshPortfolios
                          ELSE sim.log[Len(sim.log)].after

\* three records over two dates and both tickers
C17_Witness ==
    /\ Len(sim.results) >= 3
    /\ sim.results[1].date < sim.results[3].date
    /\ sim.results[1].ticker # sim.results[2].ticker

\* C18: every recorded decision is well-formed whatever the oracle returned:
\* action in {BUY, SELL, HOLD}, quantity a non-negative integer, confidence
\* in [0, 100].
C18_RecordedDecisionsWellFormed ==
    \A i \in DOMAIN sim.results :
       \A name \in DOMAIN sim.results[i].decisions :
          LET decision == sim.results[i].decisions[name]
          IN  /\ decision.action \in {"BUY", "SELL", "HOLD"}
              /\ decision.quantity \in Nat
              /\ decision.confidence \in 0..100

\* cash plus every held ticker at its price on the date
MarketValue(cash, positions, date) ==
    LET RECURSIVE Sum(_)
        Sum(S) == IF S = {} THEN 0
                  ELSE LET t == CHOOSE x \in S : TRUE
                       IN  positions[t] * PriceOf(t, date) + Sum(S \ {t})
    IN  cash + Sum(DOMAIN positions)

\* C19: the value recorded for a trader equals its cash plus, for every ticker
\* it holds (the step's ticker or another), quantity times the ticker's price
\* on the step's date.
C19_RecordedValueIsTotal ==
    \A i \in DOMAIN sim.results :
       \A name \in TraderSet :
          LET entry == sim.results[i].portfolios[name]
          IN  entry.value = MarketValue(entry.cash, entry.positions.value,
                                        sim.results[i].date)

---------------------------------------------------------------------------
(* Properties of the dashboard (frontend) *)

\* C15: across the successive status polls of a run the observed progress
\* never decreases, and it is 100 exactly when the observed state is
\* completed.
C15_ObservedProgressMonotone ==
    /\ \A i, j \in DOMAIN web.observed :
          i < j => web.observed[i].progress <= web.observed[j].progress
    /\ \A i \in DOMAIN web.observed :
          web.observed[i].progress = 100 <=> web.observed[i].status = "completed"

\* C20: every API client function resolves with a value for every outcome of
\* its request: response.data when the request succeeds, its fixed mock data
\* when it fails; it never rejects.
C20_AlwaysResolves ==
    api.calls > 0 =>
       /\ ~api.result.rejected
       /\ api.outcome.ok => api.result.value = api.outcome.data
       /\ ~api.outcome.ok => api.result.value = MockFallback(api.fn)

\* a status request that failed and resolved with {status: idle, progress: 0}
C20_Witness ==
    /\ api.calls > 0
    /\ api.fn = "getSimulationStatus"
    /\ ~api.outcome.ok
    /\ ~api.result.rejected
    /\ api.result.value = [status |-> "idle", progress |-> 0]

---------------------------------------------------------------------------
(* Properties of the stages of a step and of the writers of a portfolio *)

\* every analyst's report of the step in progress is in
ReportsIn ==
    /\ sim.pending = {}
    /\ \A j \in DOMAIN AnalystNames :
          j \in DOMAIN sim.reports /\ "analyst" \in DOMAIN sim.reports[j]

\* C21: within a step the stages run in the order analysis, debate, decisions,
\* record: the debate starts only after both analysts have returned, no trader
\* decides before the verdict exists, and a record is appended only after
\* every trader has decided.
C21_StagesInOrder ==
    /\ sim.pc = "analysts" => sim.verdict = NoResult /\ sim.decisions = EmptyDict
    /\ sim.pc = "debate" =>
          ReportsIn /\ sim.verdict = NoResult /\ sim.decisions = EmptyDict
    /\ sim.pc = "traders" => ReportsIn /\ sim.verdict # NoResult
    /\ sim.decisions # EmptyDict => sim.pc = "traders"
    /\ \A i \in DOMAIN sim.results :
          /\ Len(sim.results[i].analyst_reports) = Len(AnalystNames)
          /\ sim.results[i].debate # NoResult
          /\ DOMAIN sim.results[i].decisions = TraderSet

\* the second trader is about to decide in a step after a recorded one
C21_Witness ==
    /\ sim.pc = "traders"
    /\ sim.idx = 2
    /\ DOMAIN sim.decisions = {"Claude"}
    /\ Len(sim.results) >= 1

\* C24: a trader's portfolio changes only by that trader's own decision: in
\* every step of the run the only portfolio that can change is the one of the
\* trader whose make_decision is returning.
C24_SingleWriter ==
    [][\A name \in TraderSet :
          sim'.traders[name] # sim.traders[name] =>
             sim.pc = "traders" /\ name = TraderNames[sim.idx]]_vars

\* the first trader has traded in the step and the others are untouched
C24_Witness ==
    /\ sim.pc = "traders"
    /\ sim.idx = 2
    /\ sim.traders["Claude"] # sim.before["Claude"]
    /\ sim.traders["GPT-4"] = sim.before["GPT-4"]
    /\ sim.traders["Gemini"] = sim.before["Gemini"]

---------------------------------------------------------------------------
(* Properties of the order and the retries of the debate's oracle calls *)

\* the arguments that are in when debate waits at pc
ArgumentsBefore(pc) ==
    CASE pc = "bull_opening" -> {0}
      [] pc = "bear_counter" -> {1}
      [] pc = "bull_rebuttal" -> {2}
      [] pc = "bear_rebuttal" -> {3}
      [] pc = "done" -> {2, 4}
      [] OTHER -> 0..4

\* C22: the arguments are generated strictly one after another, bull first
\* and then alternating; the call for an argument is issued only when every
\* earlier argument's text is in, and never while another call is outstanding.
C22_StrictlySequential ==
    /\ Len(debate.debate_history) \in ArgumentsBefore(debate.pc)
    /\ \A i \in DOMAIN debate.debate_history :
          /\ debate.debate_history[i].role = (IF i % 2 = 1 THEN "bull" ELSE "bear")
          /\ debate.debate_history[i].argument.kind # "none"
    /\ \A i \in DOMAIN debate.attempts : debate.attempts[i].turn = i
    /\ Len(debate.attempts) = Len(debate.debate_history)

\* a finished two-round debate: bull, bear, bull, bear
C22_Witness ==
    /\ Done
    /\ Len(debate.debate_history) = 4
    /\ Len(debate.attempts) = 4

\* the API calls made for the argument of a turn
Tries(turn) == {i \in DOMAIN debate.attempts : debate.attempts[i].turn = turn}

\* C23: a failed oracle call is retried exactly once; when the retry fails too
\* the neutral default is used; no prompt is sent more than twice.
C23_RetryOnceThenNeutral ==
    \A turn \in DOMAIN debate.debate_history :
       /\ Cardinality(Tries(turn)) <= 2
       /\ (\E i \in Tries(turn) : ~debate.attempts[i].ok) =>
             Cardinality(Tries(turn)) = 2
       /\ (\A i \in Tries(turn) : ~debate.attempts[i].ok) =>
             debate.debate_history[turn].argument.kind = "neutral"

---------------------------------------------------------------------------
(* Properties of apply: Trader._execute_trade and BaseAgent.execute_trade *)

\* the shares added over all tickers between two portfolios, at one price
SharesAdded(before, after) ==
    LET RECURSIVE Sum(_)
        Sum(S) == IF S = {} THEN 0
                  ELSE LET t == CHOOSE x \in S : TRUE
                       IN  Held(after, t) - Held(before, t) + Sum(S \ {t})
    IN  Sum(Tickers)

\* cash and positions moved together: the cash paid is the price of the
\* shares added (received, of the shares removed)
Matched(before, after, price) ==
    before.cash - after.cash = SharesAdded(before, after) * price

\* C25: apply is atomic for a portfolio: in no state it leaves behind, the
\* state after it raised included, has cash changed without the matching
\* position change or the position without the matching cash change.
C25_ApplyAtomic ==
    /\ last.outcome # "none" => Matched(last.before, portfolio, last.price)
    /\ agentLast.outcome # "none" => Matched(agentLast.before, agent, agentLast.price)

\* C26: every BUY or SELL that validation returns with quantity > 0 passes
\* apply's guard and is applied in full: the quantity of the returned decision
\* is the quantity by which the position of its ticker changed.
C26_ValidatedTradeApplied ==
    (/\ Returned
     /\ last.decision["action"] \in {"BUY", "SELL"}
     /\ last.decision["quantity"] > 0) =>
       IF last.decision["action"] = "BUY"
       THEN Bought(last.decision["ticker"]) = last.decision["quantity"]
       ELSE Sold(last.decision["ticker"]) = last.decision["quantity"]

\* C27: the only position a step can change is that of the step's ticker,
\* whatever ticker the oracle put in its decision.
C27_OnlyStepTickerChanges ==
    last.outcome # "none" =>
       \A t \in Tickers \ {last.ticker} : Held(portfolio, t) = Held(last.before, t)

\* C30: BaseAgent.execute_trade keeps cash >= 0 and every position >= 0 for
\* every action and every integer quantity, zero and negative included, and
\* leaves cash and positions unchanged whenever it does not perform the trade.
C30_AgentStaysNonNegative ==
    /\ agent.cash >= 0
    /\ \A t \in DOMAIN agent.positions : agent.positions[t] >= 0
    /\ agentLast.outcome \in {"rejected", "raised"} => agent = agentLast.before

---------------------------------------------------------------------------
(* Properties of the dashboard's polling loop *)

\* a status the page showed was completed or error
ObservedTerminal ==
    \E i \in DOMAIN web.observed : web.observed[i].status \in {"completed", "error"}

\* C28: once a poll has observed completed or error the interval is cleared
\* (no further poll is issued); the summary is fetched only after a poll
\* observed completed, and at most once per run, also when several polls are
\* in flight together.
C28_PollingStopsOnce ==
    /\ ObservedTerminal => ~web.interval
    /\ web.summaryPending + web.summaryFetched > 0 =>
          \E i \in DOMAIN web.observed : web.observed[i].status = "completed"
    /\ web.summaryPending + web.summaryFetched <= 1

\* C29: after Run Simulation is started polling eventually stops and loading
\* eventually returns to false, also when the backend is unreachable; stated
\* for the run whose start request failed, so that the backend has no run and
\* every status the page can get, real or mock, is idle.
C29_PollingEventuallyStops ==
    [](web.pc = "polling" /\ web.backend.status = "idle" =>
          <>(~web.interval /\ ~web.loading))

====
